---------------------------- MODULE Spec2Model ----------------------------
(***************************************************************************)
(* A model of go-licenses: Libraries (the grouping of the packages of an   *)
(* import graph by license file), Library.Name / commonAncestor,           *)
(* Library.fixupFilePath / FileURL (the URL of a license file from the     *)
(* library's import path) and the per-library loop of csvMain.             *)
(*                                                                         *)
(* A Go string is a sequence of symbols.  A symbol is one character, or a  *)
(* literal that the code only copies or compares whole (a host name,       *)
(* "blob", "master", "LICENSE"): such a literal holds no "/" and is not of *)
(* the form v<digits>, so splitting, joining, trimming and the two regular *)
(* expressions of tryRemoveVersionedName see it as they see the string.    *)
(***************************************************************************)
EXTENDS Integers, Sequences, FiniteSets, TLC

(***************************************************************************)
(* Strings                                                                 *)
(***************************************************************************)

\* The symbols that the strings of the model are made of, in the byte order of
\* the strings they stand for.
Symbols ==
    << "%3Fpath=", "%3Ftab=licenses", "-", ".", ".git", "/", "0", "1", "2",
       "://", "?path=", "?tab=licenses", "LICENSE", "SSLMate", "_git", "a",
       "b", "bitbucket.org", "blob", "c", "cloud.google.com", "cloudfoundry",
       "code.cloudfoundry.org", "contrib.go.opencensus.io", "dev.azure.com",
       "etcd-io", "example.com", "git.", "github.com", "gitlab.com",
       "go.etcd.io", "go.opencensus.io", "go.starlark.net", "go.uber.org",
       "golang.org", "golang.zx2c4.com", "gomodules", "gomodules.xyz",
       "google", "google-cloud-go", "google.golang.org", "googleapis", "gopkg",
       "gopkg.in", "helm", "helm.sh", "https", "k8s.io", "kubernetes",
       "kubernetes-sigs", "kubevirt", "kubevirt.io", "master",
       "msazure.visualstudio.com", "niemeyer", "p", "pkg.go.dev", "raw",
       "sigs.k8s.io", "software.sslmate.com", "src", "starlark-go", "uber-go",
       "v", "vendor", "x", "y", "z" >>

Rank(c) == CHOOSE i \in 1..Len(Symbols) : Symbols[i] = c

\* s < t for Go strings: the byte-wise lexicographic order.
RECURSIVE StrLess(_, _)
StrLess(s, t) ==
    IF t = <<>> THEN FALSE
    ELSE IF s = <<>> THEN TRUE
    ELSE IF Head(s) # Head(t) THEN Rank(Head(s)) < Rank(Head(t))
    ELSE StrLess(Tail(s), Tail(t))

RECURSIVE InsertSorted(_, _)
InsertSorted(sorted, s) ==
    IF sorted = <<>> THEN <<s>>
    ELSE IF StrLess(s, Head(sorted)) THEN <<s>> \o sorted
    ELSE <<Head(sorted)>> \o InsertSorted(Tail(sorted), s)

\* sort.Strings: the strings in increasing order.
RECURSIVE SortStrings(_)
SortStrings(paths) ==
    IF paths = <<>> THEN <<>>
    ELSE InsertSorted(SortStrings(SubSeq(paths, 1, Len(paths) - 1)), paths[Len(paths)])

IsSorted(paths) ==
    \A i \in 1..(Len(paths) - 1) : ~StrLess(paths[i + 1], paths[i])

Range(f) == { f[i] : i \in DOMAIN f }

\* strings.SplitN(s, "/", n) for n > 0: at most n substrings, the last one the
\* unsplit remainder; one empty substring for the empty string.
RECURSIVE SplitN(_, _)
SplitN(s, n) ==
    IF n = 1 \/ ~(\E k \in 1..Len(s) : s[k] = "/") THEN <<s>>
    ELSE LET k == CHOOSE j \in 1..Len(s) :
                    s[j] = "/" /\ \A h \in 1..(j - 1) : s[h] # "/"
         IN  <<SubSeq(s, 1, k - 1)>> \o SplitN(SubSeq(s, k + 1, Len(s)), n - 1)

\* strings.Split(s, "/").
Split(s) == SplitN(s, Len(s) + 1)

\* strings.Join(elems, sep).
RECURSIVE StringsJoin(_, _)
StringsJoin(elems, sep) ==
    IF elems = <<>> THEN <<>>
    ELSE IF Len(elems) = 1 THEN elems[1]
    ELSE elems[1] \o sep \o StringsJoin(Tail(elems), sep)

HasSuffix(s, suffix) ==
    /\ Len(suffix) <= Len(s)
    /\ SubSeq(s, Len(s) - Len(suffix) + 1, Len(s)) = suffix

\* strings.TrimSuffix.
TrimSuffix(s, suffix) ==
    IF HasSuffix(s, suffix) THEN SubSeq(s, 1, Len(s) - Len(suffix)) ELSE s

SelectNonEmpty(elems) == SelectSeq(elems, LAMBDA e : e # <<>>)

\* path.Clean of a path without "." and ".." elements: no empty element, no
\* trailing slash, "." for the empty path.
Clean(p) ==
    LET rooted == p # <<>> /\ p[1] = "/"
        body == StringsJoin(SelectNonEmpty(Split(p)), <<"/">>)
    IN  IF rooted THEN <<"/">> \o body
        ELSE IF body = <<>> THEN <<".">>
        ELSE body

\* path.Join: the non-empty elements joined by slashes and cleaned; the empty
\* string when every element is empty.
PathJoin(elems) ==
    IF SelectNonEmpty(elems) = <<>> THEN <<>>
    ELSE Clean(StringsJoin(SelectNonEmpty(elems), <<"/">>))

\* filepath.Dir of a clean path: the path up to its last slash.
Dir(p) ==
    IF ~(\E k \in 1..Len(p) : p[k] = "/") THEN <<".">>
    ELSE LET k == CHOOSE j \in 1..Len(p) :
                    p[j] = "/" /\ \A h \in (j + 1)..Len(p) : p[h] # "/"
         IN  IF k = 1 THEN <<"/">> ELSE SubSeq(p, 1, k - 1)

\* filepath.Rel(basepath, targpath) for a target that lies under basepath, as
\* the license file of a library lies under the directory it is in.
Rel(basepath, targpath) ==
    IF targpath = basepath THEN <<".">>
    ELSE IF basepath = <<"/">> THEN Tail(targpath)
    ELSE SubSeq(targpath, Len(basepath) + 2, Len(targpath))

Digits == { "0", "1", "2" }

\* The regular expression v\d+ matched against a whole string.
IsVersion(s) ==
    /\ Len(s) >= 2
    /\ s[1] = "v"
    /\ \A k \in 2..Len(s) : s[k] \in Digits

(***************************************************************************)
(* Library.Name and commonAncestor                                         *)
(***************************************************************************)

\* The loop of commonAncestor; i and lastSlashIndex are the code's 0-based
\* indices, so min[i] of the code is min[i + 1] here.
RECURSIVE commonAncestorLoop(_, _, _, _)
commonAncestorLoop(min, max, i, lastSlashIndex) ==
    IF ~(i < Len(min) /\ i < Len(max)) THEN min
    ELSE IF min[i + 1] # max[i + 1] THEN SubSeq(min, 1, lastSlashIndex)
    ELSE commonAncestorLoop(min, max, i + 1,
                            IF min[i + 1] = "/" THEN i ELSE lastSlashIndex)

commonAncestor(paths) ==
    IF Len(paths) = 0 THEN <<>>
    ELSE IF Len(paths) = 1 THEN paths[1]
    ELSE LET sorted == SortStrings(paths)
         IN  commonAncestorLoop(sorted[1], sorted[Len(sorted)], 0, 0)

\* What commonAncestor leaves in the slice it was given: sort.Strings sorts in
\* place, and Name passes l.Packages itself.
PathsAfterCommonAncestor(paths) ==
    IF Len(paths) <= 1 THEN paths ELSE SortStrings(paths)

\* Library.Name.
Name(l) == commonAncestor(l.Packages)

\* Library.String.
String(l) == Name(l)

(***************************************************************************)
(* Library.tryRemoveVersionedName, fixupFilePath and FileURL               *)
(***************************************************************************)

\* A slip tryRemoveVersionedName could hold: the name is left as it is.
tryRemoveVersionedNameKeep(input) == input

\* The two regular expressions, /v\d+$ and then ^v\d+$, each followed by the
\* TrimSuffix of what it found (nothing, when it found nothing).
tryRemoveVersionedName(input) ==
    LET first ==
            IF \E k \in 1..Len(input) :
                   input[k] = "/" /\ IsVersion(SubSeq(input, k + 1, Len(input)))
            THEN LET k == CHOOSE j \in 1..Len(input) :
                            input[j] = "/" /\ IsVersion(SubSeq(input, j + 1, Len(input)))
                 IN  SubSeq(input, 1, k - 1)
            ELSE input
    IN  IF IsVersion(first) THEN <<>> ELSE first

\* What fixupFilePath and FileURL end in: values returned, or a run-time panic
\* (an index out of the range of nameParts).
FixupOk(host, urlPath) == [kind |-> "ok", host |-> host, path |-> urlPath]
FixupCannotDetermine(name) ==
    [kind |-> "error", msg |-> "cannot determine URL for package", host |-> <<>>, name |-> name]
FixupUnsupported(host, name) ==
    [kind |-> "error", msg |-> "unsupported package host", host |-> host, name |-> name]
Panic == [kind |-> "panic"]

BlobMaster == <<"blob", "/", "master", "/">>

\* The cases "github.com" and "bitbucket.org".
FixupUserProject(l, rest, host, prefix0, relFilePath) ==
    LET nameParts == SplitN(rest, 3)
    IN  IF Len(nameParts) < 2 THEN FixupCannotDetermine(Name(l))
        ELSE LET user == nameParts[1]
                 project == nameParts[2]
                 prefix == IF Len(nameParts) = 3
                           THEN tryRemoveVersionedName(PathJoin(<<prefix0, nameParts[3]>>))
                           ELSE prefix0
             IN  FixupOk(host, PathJoin(<<user, project, prefix, relFilePath>>))

\* The case "gitlab.com".
FixupGitlab(l, rest, relFilePath) ==
    LET nameParts == SplitN(rest, 3)
    IN  IF Len(nameParts) < 2 THEN FixupCannotDetermine(Name(l))
        ELSE LET user == nameParts[1]
                 project == nameParts[2]
                 suffix == <<"-", "/", "raw", "/", "master", "/">>
             IN  FixupOk(<<"gitlab.com">>, PathJoin(<<user, project, suffix, relFilePath>>))

\* The cases "k8s.io", "sigs.k8s.io", "gomodules.xyz", "go.uber.org" and
\* "go.etcd.io": a project of a GitHub organisation, with a versioned suffix.
FixupOrgProjectSuffix(l, rest, org, relFilePath) ==
    LET nameParts == SplitN(rest, 2)
    IN  IF Len(nameParts) < 1 THEN FixupCannotDetermine(Name(l))
        ELSE LET project == nameParts[1]
                 suffix == IF Len(nameParts) = 2
                           THEN tryRemoveVersionedName(nameParts[2])
                           ELSE <<>>
             IN  FixupOk(<<"github.com">>,
                         PathJoin(<<org, project, BlobMaster, suffix, relFilePath>>))

\* The cases "msazure.visualstudio.com" and "dev.azure.com".
FixupAzure(l, rest, host, relFilePath) ==
    LET nameParts == SplitN(rest, 3)
    IN  IF Len(nameParts) < 2 THEN FixupCannotDetermine(Name(l))
        ELSE LET project == nameParts[2]
                 prefix == <<"_git", "/">>
                 suffix0 == IF Len(nameParts) = 3
                            THEN TrimSuffix(tryRemoveVersionedName(nameParts[3]), <<".git">>)
                            ELSE <<>>
                 suffix == StringsJoin(<<suffix0, <<"?path=">>, relFilePath>>, <<>>)
             IN  FixupOk(host, PathJoin(<<project, prefix, suffix>>))

\* The cases "kubevirt.io", "code.cloudfoundry.org" and "helm.sh".
FixupOrgProject(l, rest, org, relFilePath) ==
    LET nameParts == SplitN(rest, 2)
    IN  IF Len(nameParts) < 1 THEN FixupCannotDetermine(Name(l))
        ELSE LET project == nameParts[1]
             IN  FixupOk(<<"github.com">>, PathJoin(<<org, project, BlobMaster, relFilePath>>))

\* The case "software.sslmate.com": the length is checked against 1, and
\* nameParts[1] (here nameParts[2]) is read whether it is there or not.
FixupSslmate(l, rest, relFilePath) ==
    LET nameParts == SplitN(rest, 3)
    IN  IF Len(nameParts) < 1 THEN FixupCannotDetermine(Name(l))
        ELSE IF Len(nameParts) < 2 THEN Panic
        ELSE LET project == nameParts[2]
                 suffix == IF Len(nameParts) = 3
                           THEN tryRemoveVersionedName(nameParts[3])
                           ELSE <<>>
             IN  FixupOk(<<"github.com">>,
                         PathJoin(<<<<"SSLMate">>, project, BlobMaster, suffix, relFilePath>>))

\* The cases that go to pkg.go.dev.
FixupPkgGoDev(l) ==
    FixupOk(<<"pkg.go.dev">>, StringsJoin(<<Name(l), <<"?tab=licenses">>>>, <<>>))

\* The hosts whose case reads nameParts[1], the part of the name after the
\* first slash.
HostsReadingRest ==
    { "github.com", "gitlab.com", "bitbucket.org", "k8s.io", "sigs.k8s.io",
      "gomodules.xyz", "go.uber.org", "go.etcd.io", "msazure.visualstudio.com",
      "dev.azure.com", "kubevirt.io", "code.cloudfoundry.org", "helm.sh",
      "software.sslmate.com" }

\* The hosts the switch of fixupFilePath has a case for.
SupportedHosts ==
    HostsReadingRest \cup
        { "go.starlark.net", "cloud.google.com", "gopkg.in", "go.opencensus.io",
          "contrib.go.opencensus.io", "golang.zx2c4.com", "google.golang.org",
          "golang.org" }

\* The symbol a host name is: a name of several symbols (or none) is no host.
HostSymbol(hostName) == IF Len(hostName) = 1 THEN hostName[1] ELSE ""

fixupFilePath(l, filePath) ==
    LET relFilePath == Rel(Dir(l.LicensePath), filePath)
        nameParts == SplitN(Name(l), 2)
        hostName == nameParts[1]
        host == HostSymbol(hostName)
        rest == nameParts[2]
    IN  IF host \in HostsReadingRest /\ Len(nameParts) < 2 THEN Panic
        ELSE CASE host = "github.com" ->
                    FixupUserProject(l, rest, <<"github.com">>, BlobMaster, relFilePath)
               [] host = "gitlab.com" -> FixupGitlab(l, rest, relFilePath)
               [] host = "bitbucket.org" ->
                    FixupUserProject(l, rest, <<"bitbucket.org">>,
                                     <<"src", "/", "master", "/">>, relFilePath)
               [] host = "k8s.io" ->
                    FixupOrgProjectSuffix(l, rest, <<"kubernetes">>, relFilePath)
               [] host = "sigs.k8s.io" ->
                    FixupOrgProjectSuffix(l, rest, <<"kubernetes-sigs">>, relFilePath)
               [] host = "gomodules.xyz" ->
                    FixupOrgProjectSuffix(l, rest, <<"gomodules">>, relFilePath)
               [] host = "go.uber.org" ->
                    FixupOrgProjectSuffix(l, rest, <<"uber-go">>, relFilePath)
               [] host = "go.etcd.io" ->
                    FixupOrgProjectSuffix(l, rest, <<"etcd-io">>, relFilePath)
               [] host = "msazure.visualstudio.com" ->
                    FixupAzure(l, rest, <<"msazure.visualstudio.com">>, relFilePath)
               [] host = "dev.azure.com" ->
                    FixupAzure(l, rest, <<"dev.azure.com">>, relFilePath)
               [] host = "kubevirt.io" ->
                    FixupOrgProject(l, rest, <<"kubevirt">>, relFilePath)
               [] host = "code.cloudfoundry.org" ->
                    FixupOrgProject(l, rest, <<"cloudfoundry">>, relFilePath)
               [] host = "go.starlark.net" ->
                    FixupOk(<<"github.com">>,
                            <<"github.com", "/", "google", "/", "starlark-go", "/", "LICENSE">>)
               [] host = "cloud.google.com" ->
                    FixupOk(<<"github.com">>,
                            <<"googleapis", "/", "google-cloud-go", "/", "LICENSE">>)
               [] host = "helm.sh" ->
                    FixupOrgProject(l, rest, <<"helm">>, relFilePath)
               [] host = "software.sslmate.com" -> FixupSslmate(l, rest, relFilePath)
               [] host = "gopkg.in" ->
                    FixupOk(<<"github.com">>,
                            <<"niemeyer", "/", "gopkg", "/", "blob", "/", "master", "/", "LICENSE">>)
               [] host = "go.opencensus.io" -> FixupPkgGoDev(l)
               [] host = "contrib.go.opencensus.io" -> FixupPkgGoDev(l)
               [] host = "golang.zx2c4.com" -> FixupPkgGoDev(l)
               [] host = "google.golang.org" -> FixupOk(<<>>, <<>>)
               [] host = "golang.org" -> FixupOk(<<>>, <<>>)
               [] OTHER -> FixupUnsupported(hostName, Name(l))

\* Library.FileURL: a URL, (nil, nil), an error, or the panic of fixupFilePath.
FileURL(l, filePath) ==
    LET fixed == fixupFilePath(l, filePath)
    IN  IF fixed.kind = "panic" THEN Panic
        ELSE IF fixed.kind = "error" THEN fixed
        ELSE IF Len(fixed.host) = 0 THEN [kind |-> "nil"]
        ELSE [kind |-> "url", Scheme |-> "https", Host |-> fixed.host, Path |-> fixed.path]

(***************************************************************************)
(* The input of Libraries: the packages packages.Load returns              *)
(***************************************************************************)

\* The number of packages of the import graph.
NumPkgs == 3

\* Import paths (Package.PkgPath), the first NumPkgs of which are loaded.
PkgUniverse ==
    << <<"a", "/", "x">>, <<"a", "/", "y">>, <<"b", "/", "z">>,
       <<"a", "/", "x", "y">>, <<"b">> >>

PkgPaths == { PkgUniverse[i] : i \in 1..NumPkgs }

PkgIndex(p) == CHOOSE i \in 1..NumPkgs : PkgUniverse[i] = p

\* A source file is known by where it lies: under GOROOT, or elsewhere.
GoRootFile == "goroot/src/pkg/file"
OtherDirFile == "gopath/src/pkg/file"

\* The fields of packages.Package that Libraries reads, one shape for each
\* way through the callback it passes to packages.Visit: a package with load
\* errors, one of the standard library, one with Go files only, one with Go
\* and other files, one without files.  (A package whose first file is a
\* compiled or an other file differs from these in the directory Find is
\* called on, and Find returns any of FindOutcomes for any directory.)
PackageShapes ==
    { [Errors |-> <<"load error">>, GoFiles |-> <<>>, CompiledGoFiles |-> <<>>, OtherFiles |-> <<>>],
      [Errors |-> <<>>, GoFiles |-> <<GoRootFile>>, CompiledGoFiles |-> <<GoRootFile>>, OtherFiles |-> <<>>],
      [Errors |-> <<>>, GoFiles |-> <<OtherDirFile>>, CompiledGoFiles |-> <<OtherDirFile>>, OtherFiles |-> <<>>],
      [Errors |-> <<>>, GoFiles |-> <<OtherDirFile>>, CompiledGoFiles |-> <<OtherDirFile>>, OtherFiles |-> <<OtherDirFile>>],
      [Errors |-> <<>>, GoFiles |-> <<>>, CompiledGoFiles |-> <<>>, OtherFiles |-> <<>>] }

\* Import graphs: Go's import graph is acyclic, so a package imports only
\* packages that come later in some order, here the order of PkgUniverse.
ImportGraphs ==
    { g \in [PkgPaths -> SUBSET PkgPaths] :
        \A p \in PkgPaths : \A q \in g[p] : PkgIndex(p) < PkgIndex(q) }

\* The roots packages.Load returns for the import paths given.
RootLists ==
    { <<PkgUniverse[1]>>, <<PkgUniverse[1], PkgUniverse[2]>> }

\* The packages that import paths lead to from the packages of ps.
RECURSIVE ImportClosure(_, _)
ImportClosure(g, ps) ==
    LET next == ps \cup UNION { g[p] : p \in ps }
    IN  IF next = ps THEN ps ELSE ImportClosure(g, next)

\* packages.Load returns the roots and what they import, directly or not.
\* The roots taken are independent entry points: none is an import, direct or
\* not, of another (a package reached twice is one that two packages import).
LoadedGraphs ==
    { in \in [roots : RootLists, imports : ImportGraphs] :
        /\ ImportClosure(in.imports, Range(in.roots)) = PkgPaths
        /\ \A i, j \in DOMAIN in.roots :
              i # j => in.roots[j] \notin ImportClosure(in.imports, {in.roots[i]}) }

\* License files Find can return; the empty string is "no license file".
NoLicense == <<>>
LicensePaths ==
    { <<"/", "src", "/", "a", "/", "LICENSE">>, <<"/", "src", "/", "b", "/", "LICENSE">> }

\* What one call of Find returns: a license path (possibly empty) and no
\* error, or the empty path and an error.
FindOutcomes ==
    { [path |-> L, err |-> FALSE] : L \in LicensePaths \cup {NoLicense} }
        \cup { [path |-> NoLicense, err |-> TRUE] }

ReasonStdLib == "Go standard library that doesn't have any license requirement"
ReasonNonGo == "Contains non-Go code that can't be inspected for further dependencies"
ReasonNoLicense == "Failed to find license"

VARIABLES
    pc,                \* where the running operation stands
    rootPkgs,          \* Libraries: the roots packages.Load returned
    Imports,           \* Libraries: Package.Imports of every package
    pkg,               \* Libraries: the other fields of every package
    pending,           \* packages.Visit: the packages still to visit, next first
    seen,              \* packages.Visit: the packages visited
    found,             \* what Find returned, for each package it was called for
    skippedLibraries,  \* Libraries: skippedLibraries
    pkgs,              \* Libraries: the keys of pkgs
    pkgsByLicense,     \* Libraries: pkgsByLicense
    errorOccurred,     \* Libraries: errorOccurred
    rangeOrder,        \* Libraries: the order in which the range produced the keys of pkgsByLicense
    libraries,         \* Libraries: libraries
    ret,               \* what Libraries returned
    l,                 \* the Library whose methods are called
    nameRet,           \* what l.Name() returned last
    urlRet,            \* what l.FileURL(l.LicensePath) returned last
    libs,              \* csvMain: libs
    skippedLibs,       \* csvMain: skippedLibs
    libIndex,          \* csvMain: the number of libraries the first loop has handled
    rows,              \* csvMain: the records written to writer
    skippedRows,       \* csvMain: the records written to skippedLibsWriter
    logged,            \* csvMain: the errors logged for the libraries whose URL is "Unknown"
    gitOutcomes        \* csvMain: what FindGitRepo and GitRepo.FileURL returned, library by library

varsLibraries ==
    << rootPkgs, Imports, pkg, pending, seen, found, skippedLibraries, pkgs,
       pkgsByLicense, errorOccurred, rangeOrder, libraries, ret >>

varsLibrary == << l, nameRet, urlRet >>

varsCsv == << libs, skippedLibs, libIndex, rows, skippedRows, logged, gitOutcomes >>

vars == << pc, varsLibraries, varsLibrary, varsCsv >>

NoLibrary == [LicensePath |-> <<>>, Packages |-> <<>>]
NotCalled == [called |-> FALSE]
NotReturned == [returned |-> FALSE]

\* The variables of Libraries while another operation is modelled.
IdleLibraries ==
    /\ rootPkgs = <<>>
    /\ Imports = << >>
    /\ pkg = << >>
    /\ pending = <<>>
    /\ seen = {}
    /\ found = << >>
    /\ skippedLibraries = <<>>
    /\ pkgs = {}
    /\ pkgsByLicense = << >>
    /\ errorOccurred = FALSE
    /\ rangeOrder = <<>>
    /\ libraries = <<>>
    /\ ret = NotReturned

\* The variables of the method calls while another operation is modelled.
IdleLibrary ==
    /\ l = NoLibrary
    /\ nameRet = NotCalled
    /\ urlRet = NotCalled

\* The variables of csvMain while another operation is modelled.
IdleCsv ==
    /\ libs = <<>>
    /\ skippedLibs = <<>>
    /\ libIndex = 0
    /\ rows = <<>>
    /\ skippedRows = <<>>
    /\ logged = <<>>
    /\ gitOutcomes = <<>>

(***************************************************************************)
(* Libraries                                                               *)
(***************************************************************************)

isStdLib(p) ==
    IF Len(pkg[p].GoFiles) = 0 THEN FALSE
    ELSE pkg[p].GoFiles[1] = GoRootFile

\* The callback's "default:" case: no file gives the package a directory.
HasNoFiles(p) ==
    /\ Len(pkg[p].GoFiles) = 0
    /\ Len(pkg[p].CompiledGoFiles) = 0
    /\ Len(pkg[p].OtherFiles) = 0

\* packages.Visit visits the imports of a package in increasing order of
\* import path, when the callback returned true.
SortedImports(p) ==
    LET ps == Imports[p]
        f == CHOOSE s \in [1..Cardinality(ps) -> ps] :
                /\ \A i, j \in DOMAIN s : i < j => StrLess(s[i], s[j])
    IN  f

\* A slip AppendByLicense could hold: the package replaces the packages filed
\* under the path before it.
AppendByLicenseOverwrite(m, licensePath, p) ==
    [k \in DOMAIN m \cup {licensePath} |-> IF k = licensePath THEN <<p>> ELSE m[k]]

\* pkgsByLicense[licensePath] = append(pkgsByLicense[licensePath], p)
AppendByLicense(m, licensePath, p) ==
    IF licensePath \in DOMAIN m
    THEN [m EXCEPT ![licensePath] = Append(@, p)]
    ELSE [k \in DOMAIN m \cup {licensePath} |->
            IF k = licensePath THEN <<p>> ELSE m[k]]

\* The skipped libraries the callback records before it calls Find.
SkippedBeforeFind(p) ==
    IF Len(pkg[p].OtherFiles) > 0
    THEN << [PackagePath |-> p, Reason |-> ReasonNonGo] >>
    ELSE <<>>

\* The skipped library the callback records when Find returned an error.
SkippedAfterFind(p, r) ==
    IF r.err
    THEN << [PackagePath |-> p, Reason |-> ReasonNoLicense] >>
    ELSE <<>>

\* A slip GroupAfterFind could hold: a package whose lookup failed is left out
\* of the map.
GroupAfterFindSkipFailed(m, p, r) ==
    IF r.err THEN m ELSE AppendByLicense(m, r.path, p)

\* The map after the callback has handled what Find returned for p.
GroupAfterFind(m, p, r) == AppendByLicense(m, r.path, p)

\* One iteration of the range over pkgsByLicense: the libraries it appends.
RECURSIVE SingletonLibraries(_)
SingletonLibraries(ps) ==
    IF ps = <<>> THEN <<>>
    ELSE << [LicensePath |-> NoLicense, Packages |-> <<Head(ps)>>] >>
            \o SingletonLibraries(Tail(ps))

\* A slip LibrariesFor could hold: the packages without a license file made
\* one library.
LibrariesForMerged(licensePath, ps) ==
    << [LicensePath |-> licensePath, Packages |-> ps] >>

\* A slip LibrariesFor could hold: every package made a library of its own,
\* whatever the path.
LibrariesForUngrouped(licensePath, ps) ==
    [k \in 1..Len(ps) |-> [LicensePath |-> licensePath, Packages |-> <<ps[k]>>]]

LibrariesFor(licensePath, ps) ==
    IF licensePath = NoLicense
    THEN SingletonLibraries(ps)
    ELSE << [LicensePath |-> licensePath, Packages |-> ps] >>

InitLibraries ==
    /\ \E in \in LoadedGraphs :
        /\ rootPkgs = in.roots
        /\ Imports = in.imports
    /\ pkg \in [PkgPaths -> PackageShapes]
    /\ pc = "visit"
    /\ pending = rootPkgs
    /\ seen = {}
    /\ found = << >>
    /\ skippedLibraries = <<>>
    /\ pkgs = {}
    /\ pkgsByLicense = << >>
    /\ errorOccurred = FALSE
    /\ rangeOrder = <<>>
    /\ libraries = <<>>
    /\ ret = NotReturned
    /\ IdleLibrary
    /\ IdleCsv

\* packages.Visit reaches a package it has visited already.
VisitSeen ==
    /\ pc = "visit"
    /\ pending # <<>>
    /\ Head(pending) \in seen
    /\ pending' = Tail(pending)
    /\ UNCHANGED << rootPkgs, Imports, pkg, pc, seen, found, skippedLibraries, pkgs,
                    pkgsByLicense, errorOccurred, rangeOrder, libraries, ret >>
    /\ UNCHANGED << varsLibrary, varsCsv >>

\* The callback on a package with load errors: it returns false.
VisitErrors ==
    /\ pc = "visit"
    /\ pending # <<>>
    /\ LET p == Head(pending) IN
        /\ p \notin seen
        /\ Len(pkg[p].Errors) > 0
        /\ seen' = seen \cup {p}
        /\ errorOccurred' = TRUE
        /\ pending' = Tail(pending)
    /\ UNCHANGED << rootPkgs, Imports, pkg, pc, found, skippedLibraries, pkgs,
                    pkgsByLicense, rangeOrder, libraries, ret >>
    /\ UNCHANGED << varsLibrary, varsCsv >>

\* The callback on a standard library package: it returns false.
VisitStdLib ==
    /\ pc = "visit"
    /\ pending # <<>>
    /\ LET p == Head(pending) IN
        /\ p \notin seen
        /\ Len(pkg[p].Errors) = 0
        /\ isStdLib(p)
        /\ seen' = seen \cup {p}
        /\ skippedLibraries' =
              Append(skippedLibraries, [PackagePath |-> p, Reason |-> ReasonStdLib])
        /\ pending' = Tail(pending)
    /\ UNCHANGED << rootPkgs, Imports, pkg, pc, found, pkgs, pkgsByLicense,
                    errorOccurred, rangeOrder, libraries, ret >>
    /\ UNCHANGED << varsLibrary, varsCsv >>

\* The callback on a package without any file: it returns true.
VisitEmpty ==
    /\ pc = "visit"
    /\ pending # <<>>
    /\ LET p == Head(pending) IN
        /\ p \notin seen
        /\ Len(pkg[p].Errors) = 0
        /\ ~isStdLib(p)
        /\ HasNoFiles(p)
        /\ seen' = seen \cup {p}
        /\ skippedLibraries' = skippedLibraries \o SkippedBeforeFind(p)
        /\ pending' = SortedImports(p) \o Tail(pending)
    /\ UNCHANGED << rootPkgs, Imports, pkg, pc, found, pkgs, pkgsByLicense,
                    errorOccurred, rangeOrder, libraries, ret >>
    /\ UNCHANGED << varsLibrary, varsCsv >>

\* The callback on any other package: it calls Find, which returns r, files
\* the package under the path returned, and returns true.
VisitFind ==
    /\ pc = "visit"
    /\ pending # <<>>
    /\ LET p == Head(pending) IN
        /\ p \notin seen
        /\ Len(pkg[p].Errors) = 0
        /\ ~isStdLib(p)
        /\ ~HasNoFiles(p)
        /\ \E r \in FindOutcomes :
            /\ found' = [q \in DOMAIN found \cup {p} |-> IF q = p THEN r ELSE found[q]]
            /\ skippedLibraries' =
                  skippedLibraries \o SkippedBeforeFind(p) \o SkippedAfterFind(p, r)
            /\ pkgsByLicense' = GroupAfterFind(pkgsByLicense, p, r)
        /\ pkgs' = pkgs \cup {p}
        /\ seen' = seen \cup {p}
        /\ pending' = SortedImports(p) \o Tail(pending)
    /\ UNCHANGED << rootPkgs, Imports, pkg, pc, errorOccurred, rangeOrder, libraries, ret >>
    /\ UNCHANGED << varsLibrary, varsCsv >>

\* packages.Visit has returned and errorOccurred is set: Libraries returns
\* nil, nil and a PackagesError.
ReturnPackagesError ==
    /\ pc = "visit"
    /\ pending = <<>>
    /\ errorOccurred
    /\ pc' = "done"
    /\ ret' = [returned |-> TRUE, libraries |-> <<>>, skipped |-> <<>>, err |-> "PackagesError"]
    /\ UNCHANGED << rootPkgs, Imports, pkg, pending, seen, found, skippedLibraries, pkgs,
                    pkgsByLicense, errorOccurred, rangeOrder, libraries >>
    /\ UNCHANGED << varsLibrary, varsCsv >>

\* The orders in which a range over a map with these keys can produce them:
\* Go leaves the order unspecified.
RangeOrders(keys) ==
    { o \in [1..Cardinality(keys) -> keys] : Range(o) = keys }

\* The libraries the range over m appends when it produces the keys in order o.
RECURSIVE LibrariesInOrder(_, _)
LibrariesInOrder(m, o) ==
    IF o = <<>> THEN <<>>
    ELSE LibrariesFor(Head(o), m[Head(o)]) \o LibrariesInOrder(m, Tail(o))

\* packages.Visit has returned without an error: Libraries ranges over
\* pkgsByLicense and returns libraries, skippedLibraries and nil.
ReturnLibraries ==
    /\ pc = "visit"
    /\ pending = <<>>
    /\ ~errorOccurred
    /\ \E o \in RangeOrders(DOMAIN pkgsByLicense) :
        /\ rangeOrder' = o
        /\ libraries' = LibrariesInOrder(pkgsByLicense, o)
    /\ pc' = "done"
    /\ ret' = [returned |-> TRUE, libraries |-> libraries', skipped |-> skippedLibraries,
               err |-> "nil"]
    /\ UNCHANGED << rootPkgs, Imports, pkg, pending, seen, found, skippedLibraries, pkgs,
                    pkgsByLicense, errorOccurred >>
    /\ UNCHANGED << varsLibrary, varsCsv >>

Next ==
    \/ VisitSeen
    \/ VisitErrors
    \/ VisitStdLib
    \/ VisitEmpty
    \/ VisitFind
    \/ ReturnPackagesError
    \/ ReturnLibraries

Spec == InitLibraries /\ [][Next]_vars

(***************************************************************************)
(* Calls of the methods of one Library                                     *)
(***************************************************************************)

\* The license file of the libraries the methods are called on.
SomeLicense == <<"/", "src", "/", "p", "/", "LICENSE">>

\* Import paths of up to MaxSegments segments, and libraries of up to
\* MaxMembers of them.
MaxSegments == 2
MaxMembers == 2
NameSegments == { <<"a">>, <<"b">>, <<"a", "b">> }

NamePaths ==
    { StringsJoin(segs, <<"/">>) :
        segs \in UNION { [1..n -> NameSegments] : n \in 1..MaxSegments } }

NameLibraries ==
    { [LicensePath |-> SomeLicense, Packages |-> ps] :
        ps \in { q \in UNION { [1..n -> NamePaths] : n \in 1..MaxMembers } :
                    \A i, j \in DOMAIN q : q[i] = q[j] => i = j } }

\* Import paths under a host: the host alone, or the host and up to
\* MaxNameSegments segments, "v2" being a major version.
MaxNameSegments == 4
UrlSegments == { <<"a">>, <<"b">>, <<"v", "2">> }
UnsupportedHost == "example.com"
AllHosts == SupportedHosts \cup {UnsupportedHost}

UrlTails ==
    { <<>> } \cup
    { <<"/">> \o StringsJoin(segs, <<"/">>) :
        segs \in UNION { [1..n -> UrlSegments] : n \in 1..MaxNameSegments } }

UrlNames == { <<h>> \o tail : h \in AllHosts, tail \in UrlTails }

\* A library of one such package, or of two packages of different users of
\* one host, whose Name is the host.
UrlLibraries ==
    { [LicensePath |-> SomeLicense, Packages |-> <<n>>] : n \in UrlNames }
        \cup
    { [LicensePath |-> SomeLicense,
       Packages |-> << <<h, "/", "b", "/", "a">>, <<h, "/", "a", "/", "b">> >>] :
        h \in AllHosts }

InitLibrary ==
    /\ pc = "library"
    /\ l \in NameLibraries \cup UrlLibraries
    /\ nameRet = NotCalled
    /\ urlRet = NotCalled
    /\ IdleLibraries
    /\ IdleCsv

\* l.Name(): commonAncestor sorts l.Packages where they are.
CallName ==
    /\ pc = "library"
    /\ nameRet' = [called |-> TRUE, name |-> Name(l)]
    /\ l' = [l EXCEPT !.Packages = PathsAfterCommonAncestor(@)]
    /\ UNCHANGED << pc, urlRet, varsLibraries, varsCsv >>

\* l.FileURL(l.LicensePath), as csvMain calls it: fixupFilePath calls l.Name().
CallFileURL ==
    /\ pc = "library"
    /\ urlRet' = [called |-> TRUE, url |-> FileURL(l, l.LicensePath)]
    /\ l' = [l EXCEPT !.Packages = PathsAfterCommonAncestor(@)]
    /\ UNCHANGED << pc, nameRet, varsLibraries, varsCsv >>

NextLibrary ==
    \/ CallName
    \/ CallFileURL

SpecLibrary == InitLibrary /\ [][NextLibrary]_vars

(***************************************************************************)
(* csvMain: one record for each library, then one for each skipped library *)
(***************************************************************************)

\* The default of the flag git_remote.
gitRemotes == <<"origin", "upstream">>

Unknown == <<"Unknown">>
InGolang == <<"n/a (included in golang)">>

\* url.URL.String of a URL with a scheme and a host: a "?" of the path is
\* escaped, and a path that does not start with a slash is given one.
EscapedSymbol(c) ==
    IF c = "?path=" THEN "%3Fpath="
    ELSE IF c = "?tab=licenses" THEN "%3Ftab=licenses"
    ELSE c

EscapedPath(path) == [k \in 1..Len(path) |-> EscapedSymbol(path[k])]

URLString(u) ==
    <<u.Scheme, "://">> \o u.Host
        \o (IF u.Path # <<>> /\ u.Path[1] # "/" THEN <<"/">> ELSE <<>>)
        \o EscapedPath(u.Path)

\* GitRepo.FileURL gives a URL for a remote, or fails.
RemoteOutcomes == [Range(gitRemotes) -> { "url", "error" }]

GitFileURL(filePath, remote) ==
    [kind |-> "url", Scheme |-> "https", Host |-> <<"git.", remote>>, Path |-> filePath]

\* The entry of gitOutcomes for a library without a license file.
NoGitCall == [repo |-> "not called", remote |-> [r \in Range(gitRemotes) |-> "not called"]]

\* What the calls to Git give for one library with a license file:
\* FindGitRepo fails and repo.FileURL is not called, or FindGitRepo finds a
\* repository and repo.FileURL is called for the remotes, in their order.
GitOutcomes ==
    { [repo |-> "error", remote |-> [r \in Range(gitRemotes) |-> "not called"]] }
        \cup { [repo |-> "found", remote |-> remote] : remote \in RemoteOutcomes }

\* Classifier.Identify names the license, or fails.
IdentifyOutcomes == { "name", "error" }
SomeLicenseName == <<"Apache-2.0">>

\* unvendor: the import path without what precedes and includes "/vendor/".
unvendor(importPath) ==
    IF \E k \in 1..(Len(importPath) - 2) :
           SubSeq(importPath, k, k + 2) = <<"/", "vendor", "/">>
    THEN LET k == CHOOSE j \in 1..(Len(importPath) - 2) :
                    /\ SubSeq(importPath, j, j + 2) = <<"/", "vendor", "/">>
                    /\ \A h \in 1..(j - 1) : SubSeq(importPath, h, h + 2) # <<"/", "vendor", "/">>
         IN  SubSeq(importPath, k + 3, Len(importPath))
    ELSE importPath

\* The loop over gitRemotes: the URL of the first remote that has one, and the
\* errors of the remotes before it.
RECURSIVE TryRemotes(_, _, _, _)
TryRemotes(remotes, remote, filePath, errs) ==
    IF remotes = <<>> THEN [kind |-> "resolved", licenseURL |-> Unknown, errs |-> errs]
    ELSE IF remote[Head(remotes)] = "error"
    THEN TryRemotes(Tail(remotes), remote, filePath,
                    Append(errs, [from |-> Head(remotes), error |-> "no URL for the remote"]))
    ELSE [kind |-> "resolved",
          licenseURL |-> URLString(GitFileURL(filePath, Head(remotes))), errs |-> errs]

\* A slip ResolveLicenseURL could hold: the name of the library is tried after
\* the remotes have all failed.
ResolveLicenseURLFallThrough(licensePath, lURL, repo, remote) ==
    LET fromName ==
            IF lURL.kind = "panic" THEN Panic
            ELSE IF lURL.kind = "error"
            THEN [kind |-> "resolved", licenseURL |-> Unknown,
                  errs |-> << [from |-> "FileURL", error |-> lURL.msg] >>]
            ELSE IF lURL.kind = "url"
            THEN [kind |-> "resolved", licenseURL |-> URLString(lURL), errs |-> <<>>]
            ELSE [kind |-> "resolved", licenseURL |-> InGolang, errs |-> <<>>]
        fromGit == TryRemotes(gitRemotes, remote, licensePath, <<>>)
    IN  IF repo = "error" THEN fromName
        ELSE IF fromGit.licenseURL # Unknown THEN fromGit
        ELSE fromName

\* The URL of the license of a library whose LicensePath is not empty: from
\* the Git repository when FindGitRepo found one; when not, from lURL, what
\* lib.FileURL(lib.LicensePath) returns.
ResolveLicenseURL(licensePath, lURL, repo, remote) ==
    IF repo = "error"
    THEN IF lURL.kind = "panic" THEN Panic
         ELSE IF lURL.kind = "error"
         THEN [kind |-> "resolved", licenseURL |-> Unknown,
               errs |-> << [from |-> "FileURL", error |-> lURL.msg] >>]
         ELSE IF lURL.kind = "url"
         THEN [kind |-> "resolved", licenseURL |-> URLString(lURL), errs |-> <<>>]
         ELSE [kind |-> "resolved", licenseURL |-> InGolang, errs |-> <<>>]
    ELSE TryRemotes(gitRemotes, remote, licensePath, <<>>)

\* The libraries csvMain is given: with a license and a name under a few
\* hosts, or without a license.
MaxLibs == 2
CsvHosts == { "github.com", "golang.org", UnsupportedHost }

\* A library of one package host/a/b, named host/a/b, and a library of the
\* packages host/a/b and host/b/a, named host.
CsvPackageLists ==
    { << <<h, "/", "a", "/", "b">> >> : h \in CsvHosts }
        \cup { << <<h, "/", "a", "/", "b">>, <<h, "/", "b", "/", "a">> >> : h \in CsvHosts }

CsvLibraries ==
    { [LicensePath |-> SomeLicense, Packages |-> ps] : ps \in CsvPackageLists }
        \cup { [LicensePath |-> NoLicense, Packages |-> << <<"a", "/", "x">> >>] }

CsvSkippedLists ==
    { <<>>, << [PackagePath |-> <<"b">>, Reason |-> ReasonStdLib] >> }

InitCsv ==
    /\ pc = "libs"
    /\ libs \in UNION { [1..n -> CsvLibraries] : n \in 0..MaxLibs }
    /\ skippedLibs \in CsvSkippedLists
    /\ libIndex = 0
    /\ rows = <<>>
    /\ skippedRows = <<>>
    /\ logged = <<>>
    /\ gitOutcomes = <<>>
    /\ IdleLibraries
    /\ IdleLibrary

\* The library the first loop of csvMain is at.
lib == libs[libIndex + 1]

\* lib after lib.Name() was called on it.
LibsAfterName == [libs EXCEPT ![libIndex + 1].Packages = PathsAfterCommonAncestor(@)]

\* One turn of the loop for a library without a license file.
CsvUnlicensed ==
    /\ pc = "libs"
    /\ libIndex < Len(libs)
    /\ lib.LicensePath = <<>>
    /\ rows' = Append(rows, [name |-> unvendor(Name(lib)), licenseURL |-> Unknown,
                             licenseName |-> Unknown])
    /\ gitOutcomes' = Append(gitOutcomes, NoGitCall)
    /\ libs' = LibsAfterName
    /\ libIndex' = libIndex + 1
    /\ UNCHANGED << pc, skippedLibs, skippedRows, logged, varsLibraries, varsLibrary >>

\* One turn of the loop for a library with a license file, to its end.
CsvLicensed ==
    /\ pc = "libs"
    /\ libIndex < Len(libs)
    /\ lib.LicensePath # <<>>
    /\ \E lURL \in { FileURL(lib, lib.LicensePath) } :
       \E git \in GitOutcomes, identified \in IdentifyOutcomes :
       \E res \in { ResolveLicenseURL(lib.LicensePath, lURL, git.repo, git.remote) } :
            /\ res.kind = "resolved"
            /\ logged' = IF res.licenseURL = Unknown
                         THEN Append(logged, [licensePath |-> lib.LicensePath, errs |-> res.errs])
                         ELSE logged
            /\ rows' = Append(rows, [name |-> unvendor(Name(lib)),
                                     licenseURL |-> res.licenseURL,
                                     licenseName |-> IF identified = "error"
                                                     THEN Unknown ELSE SomeLicenseName])
            /\ gitOutcomes' = Append(gitOutcomes, git)
    /\ libs' = LibsAfterName
    /\ libIndex' = libIndex + 1
    /\ UNCHANGED << pc, skippedLibs, skippedRows, varsLibraries, varsLibrary >>

\* One turn of the loop that ends in the panic of lib.FileURL: the program
\* stops, and nothing is flushed to the writers.
CsvPanic ==
    /\ pc = "libs"
    /\ libIndex < Len(libs)
    /\ lib.LicensePath # <<>>
    /\ \E lURL \in { FileURL(lib, lib.LicensePath) } :
       \E git \in GitOutcomes :
            ResolveLicenseURL(lib.LicensePath, lURL, git.repo, git.remote).kind = "panic"
    /\ libs' = LibsAfterName
    /\ pc' = "panic"
    /\ UNCHANGED << skippedLibs, libIndex, rows, skippedRows, logged, gitOutcomes,
                    varsLibraries, varsLibrary >>

\* The second loop, the two Flush and the return of writer.Error(); the writes
\* to the two files are taken to succeed.
CsvSkipped ==
    /\ pc = "libs"
    /\ libIndex = Len(libs)
    /\ skippedRows' = [k \in 1..Len(skippedLibs) |->
                          <<skippedLibs[k].PackagePath, skippedLibs[k].Reason>>]
    /\ pc' = "done"
    /\ UNCHANGED << libs, skippedLibs, libIndex, rows, logged, gitOutcomes, varsLibraries,
                    varsLibrary >>

NextCsv ==
    \/ CsvUnlicensed
    \/ CsvLicensed
    \/ CsvPanic
    \/ CsvSkipped

SpecCsv == InitCsv /\ [][NextCsv]_vars

(***************************************************************************)
(* Properties of Libraries (specification Spec)                            *)
(***************************************************************************)

ReturnedOk == ret.returned /\ ret.err = "nil"

\* The packages import paths lead to from the roots.
Reachable == ImportClosure(Imports, Range(rootPkgs))

\* The packages the traversal reaches: the roots, and the imports of the
\* packages reached that have no load error and are not of the standard library.
RECURSIVE TraversalClosure(_)
TraversalClosure(ps) ==
    LET next == ps \cup UNION { Imports[p] :
                    p \in { q \in ps : Len(pkg[q].Errors) = 0 /\ ~isStdLib(q) } }
    IN  IF next = ps THEN ps ELSE TraversalClosure(next)

Traversed == TraversalClosure(Range(rootPkgs))

\* The packages that Find is called for.
LookedUp == { p \in Traversed : ~isStdLib(p) /\ ~HasNoFiles(p) }

\* How many times p is a member of a library of libs.
RECURSIVE Occurrences(_, _)
Occurrences(libraryList, p) ==
    IF libraryList = <<>> THEN 0
    ELSE Cardinality({ k \in DOMAIN Head(libraryList).Packages :
                          Head(libraryList).Packages[k] = p })
            + Occurrences(Tail(libraryList), p)

\* The libraries of libs that p is a member of.
LibrariesOf(libraryList, p) ==
    { k \in DOMAIN libraryList : p \in Range(libraryList[k].Packages) }

\* C1, as claimed: after Libraries returns without error, every package
\* reachable from the entry points, a standard library package and a package
\* without files included, is a member of exactly one Library, once.
C1_EveryReachablePackageInOneLibrary ==
    ReturnedOk => \A p \in Reachable : Occurrences(ret.libraries, p) = 1

\* C1, amended: after Libraries returns without error, the packages that are
\* members of a Library are the packages the traversal reaches (a root, or an
\* import of a reached package that is not of the standard library) that are
\* not of the standard library and have a file; each of them is a member of
\* exactly one Library, once, also when its license lookup failed; every
\* other package is a member of none.
C1_EveryLookedUpPackageInOneLibrary ==
    ReturnedOk =>
        LET lookedUp == LookedUp
        IN  \A p \in PkgPaths :
                Occurrences(ret.libraries, p) = IF p \in lookedUp THEN 1 ELSE 0

\* Libraries has returned libraries for a graph with a standard library
\* package, a package without files, a package that two packages import and
\* a package whose lookup failed.
C1_Witness ==
    /\ ReturnedOk
    /\ \E p \in Reachable : isStdLib(p)
    /\ \E p \in Reachable : HasNoFiles(p)
    /\ \E p \in LookedUp : found[p].err
    /\ \E p \in LookedUp : Cardinality({ q \in PkgPaths : p \in Imports[q] }) >= 2

\* C2: after Libraries returns without error, for every license path L that
\* is not empty and that Find returned, exactly one Library has LicensePath L,
\* and its members are, once each, the packages for which Find returned L; a
\* path Find did not return is the LicensePath of no Library.
C2_OneLibraryPerLicensePath ==
    ReturnedOk =>
        \A L \in LicensePaths :
            LET with == { k \in DOMAIN ret.libraries : ret.libraries[k].LicensePath = L }
                for == { p \in DOMAIN found : found[p].path = L }
            IN  IF for = {} THEN with = {}
                ELSE /\ Cardinality(with) = 1
                     /\ \A k \in with :
                          /\ Range(ret.libraries[k].Packages) = for
                          /\ Len(ret.libraries[k].Packages) = Cardinality(for)

\* Libraries has returned a Library of two packages, and a package for which
\* Find returned another path that is not empty.
C2_Witness ==
    /\ ReturnedOk
    /\ \E k \in DOMAIN ret.libraries :
          /\ ret.libraries[k].LicensePath # NoLicense
          /\ Len(ret.libraries[k].Packages) = 2
    /\ \E p, q \in DOMAIN found :
          /\ found[p].path # NoLicense
          /\ found[q].path # NoLicense
          /\ found[p].path # found[q].path

\* C3: after Libraries returns without error, a Library whose LicensePath is
\* empty has exactly one member, and a package for which Find returned the
\* empty path is the only member of every Library it is in.
C3_UnlicensedLibrariesAreSingletons ==
    ReturnedOk =>
        /\ \A k \in DOMAIN ret.libraries :
              ret.libraries[k].LicensePath = NoLicense
                  => Len(ret.libraries[k].Packages) = 1
        /\ \A p \in DOMAIN found :
              found[p].path = NoLicense
                  => \A k \in LibrariesOf(ret.libraries, p) :
                        ret.libraries[k] = [LicensePath |-> NoLicense, Packages |-> <<p>>]

\* Libraries has returned libraries for two packages without a license file.
C3_Witness ==
    /\ ReturnedOk
    /\ \E p, q \in DOMAIN found :
          /\ p # q
          /\ found[p].path = NoLicense
          /\ found[q].path = NoLicense
          /\ LibrariesOf(ret.libraries, p) # {}
          /\ LibrariesOf(ret.libraries, q) # {}

LibraryNames(libraryList) == [k \in DOMAIN libraryList |-> Name(libraryList[k])]
SkippedPaths(skipped) == [k \in DOMAIN skipped |-> skipped[k].PackagePath]

\* C5, as claimed: the libraries Libraries returns are in the order of their
\* names and the skipped libraries in the order of their package paths,
\* whatever the order in which the range produced the keys of the map.
C5_OutputSorted ==
    ReturnedOk =>
        /\ IsSorted(LibraryNames(ret.libraries))
        /\ IsSorted(SkippedPaths(ret.skipped))

\* C6, as claimed: Libraries returns the PackagesError, and neither libraries
\* nor skipped libraries, exactly when a package reachable from the entry
\* points has a load error.
C6_ErrorIffReachableLoadError ==
    ret.returned =>
        /\ (ret.err = "PackagesError") = (\E p \in Reachable : Len(pkg[p].Errors) > 0)
        /\ ret.err = "PackagesError" => (ret.libraries = <<>> /\ ret.skipped = <<>>)

\* The skipped libraries recorded for p with the reason of a failed lookup.
FailedRecords(skipped, p) ==
    { k \in DOMAIN skipped :
        skipped[k] = [PackagePath |-> p, Reason |-> ReasonNoLicense] }

\* C10, as claimed: after Libraries returns without error, a package whose
\* license lookup failed has exactly one skipped library with that reason and
\* is a member of no Library.
C10_FailedLookupExcludedFromGrouping ==
    ReturnedOk =>
        \A p \in DOMAIN found :
            found[p].err =>
                /\ Cardinality(FailedRecords(ret.skipped, p)) = 1
                /\ LibrariesOf(ret.libraries, p) = {}

\* The libraries that grouping by these paths gives, members as sets.
GroupingOf(pathOf) ==
    { [LicensePath |-> L, Members |-> { q \in DOMAIN pathOf : pathOf[q] = L }] :
        L \in { pathOf[q] : q \in DOMAIN pathOf } \ {NoLicense} }
      \cup
    { [LicensePath |-> NoLicense, Members |-> {q}] :
        q \in { r \in DOMAIN pathOf : pathOf[r] = NoLicense } }

LibrarySet(libraryList) ==
    { [LicensePath |-> libraryList[k].LicensePath,
       Members |-> Range(libraryList[k].Packages)] : k \in DOMAIN libraryList }

\* C10, amended: a failed license lookup does not make Libraries fail (it
\* returns the PackagesError only when a visited package has a load error);
\* after Libraries returns without error, a package whose lookup failed has
\* exactly one skipped library with that reason, and it is still grouped: it
\* is a member, once, of exactly one Library, the one of the path that Find
\* returned with its error, so with the empty path it is the only member of
\* a Library whose LicensePath is empty, like a package without a license
\* file; the libraries are those that the paths Find returned give, whether a
\* lookup failed or not, and only the packages whose lookup failed have a
\* skipped library with that reason.
C10_FailedLookupSkippedAndStillGrouped ==
    /\ (ret.returned /\ ret.err = "PackagesError")
          => \E p \in seen : Len(pkg[p].Errors) > 0
    /\ ReturnedOk =>
        /\ \A p \in DOMAIN found :
              /\ Cardinality(FailedRecords(ret.skipped, p)) = IF found[p].err THEN 1 ELSE 0
              /\ found[p].err =>
                    /\ Occurrences(ret.libraries, p) = 1
                    /\ \A k \in LibrariesOf(ret.libraries, p) :
                          /\ ret.libraries[k].LicensePath = found[p].path
                          /\ found[p].path = NoLicense
                                => ret.libraries[k].Packages = <<p>>
        /\ LibrarySet(ret.libraries) = GroupingOf([q \in DOMAIN found |-> found[q].path])
        /\ Len(ret.libraries) = Cardinality(LibrarySet(ret.libraries))

\* Libraries has returned without error after a lookup failed for one package
\* and gave one license file for two others.
C10_Witness ==
    /\ ReturnedOk
    /\ \E p \in DOMAIN found :
          /\ found[p] = [path |-> NoLicense, err |-> TRUE]
          /\ FailedRecords(ret.skipped, p) # {}
          /\ \E k \in DOMAIN ret.libraries :
                ret.libraries[k] = [LicensePath |-> NoLicense, Packages |-> <<p>>]
    /\ \E k \in DOMAIN ret.libraries : Len(ret.libraries[k].Packages) = 2

(***************************************************************************)
(* Properties of the methods of a Library (specification SpecLibrary)      *)
(***************************************************************************)

\* The longest sequence of whole segments that every path starts with.
CommonSegments(paths) ==
    LET segs == [k \in DOMAIN paths |-> Split(paths[k])]
        shared(n) == \A k \in DOMAIN paths :
                        /\ Len(segs[k]) >= n
                        /\ SubSeq(segs[k], 1, n) = SubSeq(segs[1], 1, n)
        n == CHOOSE m \in 0..Len(segs[1]) :
                /\ shared(m)
                /\ \A h \in (m + 1)..Len(segs[1]) : ~shared(h)
    IN  SubSeq(segs[1], 1, n)

LongestCommonSegmentPrefix(paths) == StringsJoin(CommonSegments(paths), <<"/">>)

\* C4, as claimed: Name() is the longest common prefix of whole segments of
\* the import paths of the members, and the member itself when there is one.
C4_NameIsLongestCommonSegmentPrefix ==
    nameRet.called =>
        /\ nameRet.name = LongestCommonSegmentPrefix(l.Packages)
        /\ Len(l.Packages) = 1 => nameRet.name = l.Packages[1]

\* The hosts whose URL is a page of pkg.go.dev, made of the whole name.
PkgGoDevHosts == { "go.opencensus.io", "contrib.go.opencensus.io", "golang.zx2c4.com" }

\* l is a library of one package whose path is N and a major version, N
\* being host/org/project or longer.
IsVersionedLibrary ==
    /\ Len(l.Packages) = 1
    /\ Len(Split(l.Packages[1])) >= 4
    /\ IsVersion(Split(l.Packages[1])[Len(Split(l.Packages[1]))])

VersionedHost == HostSymbol(Split(l.Packages[1])[1])

\* The segments of N, and the library of the package N.
UnversionedSegments ==
    SubSeq(Split(l.Packages[1]), 1, Len(Split(l.Packages[1])) - 1)

UnversionedLibrary ==
    [l EXCEPT !.Packages = << StringsJoin(UnversionedSegments, <<"/">>) >>]

\* C8, as claimed: for every host of the switch, the library named N + "/v2"
\* gets the host and the path that the library named N gets.
C8_VersionSuffixStripped ==
    (urlRet.called /\ IsVersionedLibrary /\ VersionedHost \in SupportedHosts)
        => urlRet.url = FileURL(UnversionedLibrary, l.LicensePath)

\* C8, amended: for every host of the switch but the three that go to
\* pkg.go.dev (go.opencensus.io, contrib.go.opencensus.io, golang.zx2c4.com,
\* whose URL path is the whole name, version included), and for every N of the
\* form host/org/project[/subpath] whose last segment is not itself v<digits>,
\* the library named N + "/v<digits>" gets the host and the URL path that the
\* library named N gets.
C8_VersionSuffixStrippedOnRepositoryHosts ==
    ( /\ urlRet.called
      /\ IsVersionedLibrary
      /\ VersionedHost \in SupportedHosts \ PkgGoDevHosts
      /\ ~IsVersion(UnversionedSegments[Len(UnversionedSegments)]) )
        => urlRet.url = FileURL(UnversionedLibrary, l.LicensePath)

\* FileURL has returned a URL for the library named github.com/a/b/v2, one for
\* a subpath and a version would show in were they not removed.
C8_Witness ==
    /\ urlRet.called
    /\ l.Packages = << <<"github.com", "/", "a", "/", "b", "/", "v", "2">> >>
    /\ urlRet.url.kind = "url"
    /\ urlRet.url.Path = <<"a", "/", "b", "/", "blob", "/", "master", "/", "LICENSE">>

(***************************************************************************)
(* Properties of csvMain (specification SpecCsv)                           *)
(***************************************************************************)

\* C7, as claimed: the resolution of the URL of a library never ends the run
\* abnormally, whatever the name of the library; every library of the list
\* gets its record, the one whose URL cannot be told with the URL "Unknown".
C7_ProvenanceFailureNeverAborts ==
    /\ pc # "panic"
    /\ pc = "done" => Len(rows) = Len(libs)
    /\ \A k \in DOMAIN rows :
          ( /\ libs[k].LicensePath # NoLicense
            /\ gitOutcomes[k].repo = "error"
            /\ FileURL(libs[k], libs[k].LicensePath).kind = "error" )
              => rows[k].licenseURL = Unknown

\* The remotes of gitRemotes that gave a URL for the k-th library.
RemotesWithURL(k) ==
    { j \in DOMAIN gitRemotes : gitOutcomes[k].remote[gitRemotes[j]] = "url" }

FirstRemoteWithURL(k) ==
    gitRemotes[CHOOSE j \in RemotesWithURL(k) : \A h \in RemotesWithURL(k) : j <= h]

\* The first remote of the preference order that gives a URL is used.
FirstRemoteUsed ==
    \A k \in DOMAIN rows :
        (gitOutcomes[k].repo = "found" /\ RemotesWithURL(k) # {})
            => rows[k].licenseURL =
                  URLString(GitFileURL(libs[k].LicensePath, FirstRemoteWithURL(k)))

\* C9, as claimed: the first remote that gives a URL is used, and a library
\* in a Git repository none of whose remotes gives a URL gets the URL of
\* Library.FileURL when its name has a supported host.
C9_FallThroughToImportPath ==
    /\ FirstRemoteUsed
    /\ \A k \in DOMAIN rows :
          ( /\ gitOutcomes[k].repo = "found"
            /\ RemotesWithURL(k) = {}
            /\ FileURL(libs[k], libs[k].LicensePath).kind = "url" )
              => rows[k].licenseURL = URLString(FileURL(libs[k], libs[k].LicensePath))

\* C9, amended: the two strategies are alternatives, chosen by whether
\* FindGitRepo finds a repository, and there is no fall-through.  When it
\* finds one, the first remote of the preference order that gives a URL is
\* used, and when none does the errors of all the remotes are logged and the
\* URL is "Unknown", whatever Library.FileURL would give.  Library.FileURL is
\* tried only when FindGitRepo fails, and then decides the URL alone.
C9_NoFallThrough ==
    /\ FirstRemoteUsed
    /\ \A k \in DOMAIN rows :
          /\ (gitOutcomes[k].repo = "found" /\ RemotesWithURL(k) = {})
                => /\ rows[k].licenseURL = Unknown
                   /\ \E j \in DOMAIN logged : Len(logged[j].errs) = Len(gitRemotes)
          /\ gitOutcomes[k].repo = "error"
                => LET lURL == FileURL(libs[k], libs[k].LicensePath)
                   IN  rows[k].licenseURL =
                          CASE lURL.kind = "url" -> URLString(lURL)
                            [] lURL.kind = "nil" -> InGolang
                            [] OTHER -> Unknown

\* csvMain has written the record of a library named github.com/a/b that is
\* in a Git repository none of whose remotes gave a URL, and the record of a
\* library whose second remote gave the URL.
C9_Witness ==
    /\ \E k \in DOMAIN rows :
          /\ libs[k].Packages = << <<"github.com", "/", "a", "/", "b">> >>
          /\ gitOutcomes[k].repo = "found"
          /\ RemotesWithURL(k) = {}
          /\ rows[k].licenseURL = Unknown
    /\ \E k \in DOMAIN rows :
          /\ gitOutcomes[k].repo = "found"
          /\ RemotesWithURL(k) = {2}

(***************************************************************************)
(* Properties of the calls on one Library (specification SpecLibrary)      *)
(***************************************************************************)

\* C11, as claimed: a call of Name(), directly or through FileURL() and
\* fixupFilePath(), leaves LicensePath and Packages of the Library as they
\* were, element for element and in the same order, and a later call of
\* Name() returns the name an earlier call returned.
C11_LibraryReadOnlyAfterGrouping ==
    [][ /\ l'.LicensePath = l.LicensePath
        /\ l'.Packages = l.Packages
        /\ (nameRet.called /\ nameRet'.called) => nameRet'.name = nameRet.name ]_vars

====
